---- MODULE Spec2Model ----
(***************************************************************************)
(* FileSense (src-tauri/src/main.rs): the category rules, the folder       *)
(* scanner, the move executor (organize_files) and the undo executor       *)
(* (undo_organize), modelled over a small POSIX-like filesystem.           *)
(* Strings are TLA+ strings; paths are absolute, '/'-separated strings.    *)
(***************************************************************************)
EXTENDS Integers, Sequences, FiniteSets, TLC

VARIABLES
    file_info,   \* categorize_file: the FileInfo under classification
    category,    \* categorize_file: the returned label ("" before the call)
    folder,      \* analyze_folder: the folder_path argument as the OS sees it
    analysis,    \* analyze_folder: the returned Result ([kind |-> "none"] before)
    fs,          \* the filesystem: existing path -> 0 (directory) or file id
    readonly,    \* directories whose entries cannot be added or removed
    plan,        \* organize_files: the organization_plan JSON object
    pc,          \* position of the organize / undo call in progress
    ci,          \* organize_files: index of the category being processed
    fi,          \* organize_files: index of the file entry being processed
    category_dir,\* organize_files: the destination directory of the category
    moved_files, \* organize_files: counter of successful renames
    errors,      \* organize_files: accumulated error strings
    moves,       \* organize_files: the move log
    result,      \* organize_files: the returned Result
    log,         \* undo_organize: the moves argument
    ui,          \* undo_organize: index of the record being reversed
    folders_to_check, \* undo_organize: parent directories still to visit
    undone,      \* undo_organize: counter of successful reversals
    uerrors,     \* undo_organize: accumulated error strings
    uresult,     \* undo_organize: the returned Result
    fs0,         \* history: the filesystem when organize_files was called
    attempts,    \* history: renames attempted by organize_files, in order
    mkdir_failed,\* history: categories whose directory could not be created
    external,    \* history: the filesystem was changed between the two calls
    uattempts,   \* history: renames attempted by undo_organize, in order
    fs_reversed, \* history: the filesystem when the reversal loop ended
    cleanup      \* history: what the cleanup loop saw and did, per directory

classVars == <<file_info, category>>
scanVars == <<folder, analysis>>
orgVars == <<plan, pc, ci, fi, category_dir, moved_files, errors, moves, result>>
undoVars == <<log, ui, folders_to_check, undone, uerrors, uresult>>
histVars == <<fs0, attempts, mkdir_failed, external, uattempts, fs_reversed, cleanup>>
moveVars == <<fs, readonly, orgVars, undoVars, histVars>>

(***************************************************************************)
(* Bounds of the model.                                                    *)
(***************************************************************************)
MaxParts == 2      \* fragments concatenated into a file-name stem
MaxEntries == 2    \* directory entries of a scanned folder
MaxFiles == 2      \* file entries of an organization plan, over all categories

(***************************************************************************)
(* String helpers: str::to_lowercase and str::contains.                    *)
(***************************************************************************)
\* char::to_lowercase on ASCII
LowerChar(c) ==
    CASE c = "A" -> "a"
      [] c = "B" -> "b"
      [] c = "C" -> "c"
      [] c = "D" -> "d"
      [] c = "E" -> "e"
      [] c = "F" -> "f"
      [] c = "G" -> "g"
      [] c = "H" -> "h"
      [] c = "I" -> "i"
      [] c = "J" -> "j"
      [] c = "K" -> "k"
      [] c = "L" -> "l"
      [] c = "M" -> "m"
      [] c = "N" -> "n"
      [] c = "O" -> "o"
      [] c = "P" -> "p"
      [] c = "Q" -> "q"
      [] c = "R" -> "r"
      [] c = "S" -> "s"
      [] c = "T" -> "t"
      [] c = "U" -> "u"
      [] c = "V" -> "v"
      [] c = "W" -> "w"
      [] c = "X" -> "x"
      [] c = "Y" -> "y"
      [] c = "Z" -> "z"
      [] OTHER -> c

RECURSIVE to_lowercase(_)
to_lowercase(s) ==
    IF s = "" THEN ""
    ELSE LowerChar(SubSeq(s, 1, 1)) \o to_lowercase(SubSeq(s, 2, Len(s)))

contains(s, k) ==
    \E i \in 1..(Len(s) - Len(k) + 1) : SubSeq(s, i, i + Len(k) - 1) = k

starts_with(s, k) == Len(s) >= Len(k) /\ SubSeq(s, 1, Len(k)) = k

\* index of the last occurrence of the one-character string c in s, 0 if none
LastIndexOf(s, c) ==
    LET I == {i \in 1..Len(s) : SubSeq(s, i, i) = c}
    IN IF I = {} THEN 0 ELSE CHOOSE i \in I : \A j \in I : j <= i

(***************************************************************************)
(* Category rules.                                                         *)
(***************************************************************************)
sensitive_keywords ==
    {"tax", "irs", "w2", "1099", "ssn", "social", "security",
     "bank", "account", "statement", "routing", "financial",
     "password", "credential", "key", "secret", "login", "auth",
     "medical", "health", "prescription", "doctor", "patient",
     "personal", "private", "confidential", "classified"}

work_keywords ==
    {"meeting", "presentation", "report", "proposal", "contract",
     "client", "project", "deadline", "invoice", "budget",
     "company", "corporate", "business", "professional",
     "quarterly", "annual", "fiscal", "revenue", "salary"}

personal_keywords ==
    {"vacation", "holiday", "trip", "travel", "family",
     "birthday", "wedding", "anniversary", "graduation",
     "photo", "pic", "img", "selfie", "camera"}

is_sensitive_file(file_name) ==
    \E keyword \in sensitive_keywords : contains(file_name, keyword)

is_work_document(file_name) ==
    \E keyword \in work_keywords : contains(file_name, keyword)

is_personal_photo_keywords_only(file_name) ==
    \E keyword \in personal_keywords \ {"img"} : contains(file_name, keyword)

is_personal_photo(file_name) ==
    LET has_date_pattern ==
            /\ contains(file_name, "20")
            /\ \/ contains(file_name, "2023")
               \/ contains(file_name, "2024")
               \/ contains(file_name, "2025")
    IN (\E keyword \in personal_keywords : contains(file_name, keyword))
       \/ has_date_pattern

DocumentExts == {"pdf", "doc", "docx", "txt", "rtf", "odt"}
SheetExts == {"xls", "xlsx", "csv", "ods", "ppt", "pptx", "odp"}
ImageExts == {"jpg", "jpeg", "png", "gif", "bmp", "tiff", "svg", "webp", "heic"}
VideoExts == {"mp4", "avi", "mov", "wmv", "flv", "mkv", "webm", "m4v"}
AudioExts == {"mp3", "wav", "flac", "aac", "ogg", "wma", "m4a"}
ArchiveExts == {"zip", "rar", "7z", "tar", "gz", "bz2", "xz"}
CodeExts ==
    {"js", "ts", "jsx", "tsx", "py", "java", "cpp", "c", "h", "css", "html",
     "php", "rb", "go", "rs", "swift", "kt", "cs", "vb", "sql", "json", "xml",
     "yml", "yaml"}
SoftwareExts == {"exe", "msi", "dmg", "pkg", "deb", "rpm", "appx", "app"}

ExtensionRule_sheets_work(file_name, extension) ==
    IF extension \in DocumentExts \cup SheetExts
    THEN (IF is_work_document(file_name) THEN "Work Documents" ELSE "Documents")
    ELSE IF extension \in ImageExts
    THEN (IF is_personal_photo(file_name) THEN "Personal Photos" ELSE "Images")
    ELSE "Other"

\* the match on the extension, lines 42-84
ExtensionRule(file_name, extension) ==
    IF extension \in DocumentExts
    THEN (IF is_work_document(file_name) THEN "Work Documents" ELSE "Documents")
    ELSE IF extension \in SheetExts THEN "Documents"
    ELSE IF extension \in ImageExts
    THEN (IF is_personal_photo(file_name) THEN "Personal Photos" ELSE "Images")
    ELSE IF extension \in VideoExts THEN "Videos"
    ELSE IF extension \in AudioExts THEN "Audio"
    ELSE IF extension \in ArchiveExts THEN "Archives"
    ELSE IF extension \in CodeExts THEN "Code"
    ELSE IF extension \in SoftwareExts THEN "Software"
    ELSE "Other"

categorize_file_ext_first(info) ==
    LET file_name == to_lowercase(info.name)
        extension == to_lowercase(info.extension)
        byExt == ExtensionRule(file_name, extension)
    IN IF byExt # "Other" THEN byExt
       ELSE IF is_sensitive_file(file_name) THEN "Sensitive" ELSE "Other"

categorize_file(info) ==
    LET file_name == to_lowercase(info.name)
        extension == to_lowercase(info.extension)
    IN IF is_sensitive_file(file_name) THEN "Sensitive"
       ELSE ExtensionRule(file_name, extension)

\* Path::extension of a bare file name, then to_lowercase: the text after the
\* last dot; none when there is no dot or the only dot is the leading one
get_file_extension(name) ==
    LET i == LastIndexOf(name, ".")
    IN IF i <= 1 THEN "" ELSE to_lowercase(SubSeq(name, i + 1, Len(name)))

\* Path::join of a directory path and a relative name
PathJoin(dir, name) == IF dir = "/" THEN "/" \o name ELSE dir \o "/" \o name

\* the FileInfo literal of analyze_folder, lines 221-226
MakeFileInfo(dir, name, size) ==
    [name |-> name, path |-> PathJoin(dir, name), size |-> size,
     extension |-> get_file_extension(name)]

(***************************************************************************)
(* Inputs of the classification check: stems built from fragments, joined  *)
(* to an extension as written on disk (any case), or left without one.     *)
(***************************************************************************)
Fragments ==
    {"tax", "Secret", "Quarterly", "family", "IMG", "_0001", "2024", "notes"}

ExampleNames ==
    {"tax_2024.pdf", "quarterly_report.docx", "notes.txt",
     "family_vacation.jpg", "IMG_0001.jpg", "data.xyz"}

ExtInputs ==
    DocumentExts \cup SheetExts \cup ImageExts
    \cup {"mp4", "zip", "rs", "PDF", "Jpg", "XLSX", "xyz", ""}

RECURSIVE Stems(_)
Stems(n) ==
    IF n = 0 THEN {""}
    ELSE LET S == Stems(n - 1) IN S \cup {s \o f : s \in S, f \in Fragments}

NameInputs ==
    ((Stems(MaxParts) \ {""})
    \cup {s \o "." \o e : s \in Stems(MaxParts), e \in ExtInputs}
    \cup ExampleNames) \ {"."}

ScanDir == "/d"

(***************************************************************************)
(* Folder scanner.  The folder argument is what the OS reports for the     *)
(* path: missing, a regular file, or a directory whose listing either      *)
(* cannot begin or yields a sequence of entries, each Ok or Err.           *)
(***************************************************************************)
category_names ==
    <<"Documents", "Images", "Videos", "Audio", "Archives",
      "Code", "Software", "Work Documents", "Personal Photos",
      "Sensitive", "Other">>

Range(f) == {f[i] : i \in DOMAIN f}

\* fs::metadata(path).map(|m| m.len()).unwrap_or(0); size < 0: no metadata
get_file_size(entry) == IF entry.size < 0 THEN 0 ELSE entry.size

SkipEntry_dirs_only(entry) == entry.is_dir

\* the skip condition, lines 207-211
SkipEntry(entry) == entry.is_dir \/ starts_with(entry.name, ".")

\* the loop over the entries, lines 195-239
RECURSIVE ScanLoop(_, _, _, _)
ScanLoop(dir, entries, categories, total_files) ==
    IF entries = <<>>
    THEN [total_files |-> total_files, categories |-> categories]
    ELSE LET entry == Head(entries) IN
         IF ~entry.ok \/ SkipEntry(entry)
         THEN ScanLoop(dir, Tail(entries), categories, total_files)
         ELSE LET info == MakeFileInfo(dir, entry.name, get_file_size(entry))
                  cat == categorize_file(info)
              IN IF cat \in DOMAIN categories
                 THEN ScanLoop(dir, Tail(entries),
                               [categories EXCEPT ![cat] = Append(@, info)],
                               total_files + 1)
                 ELSE ScanLoop(dir, Tail(entries), categories, total_files)

analyze_folder(f) ==
    IF f.kind = "missing"
    THEN [kind |-> "err", msg |-> "Folder does not exist: " \o f.path]
    ELSE IF f.kind # "dir"
    THEN [kind |-> "err", msg |-> "Path is not a directory: " \o f.path]
    ELSE IF ~f.readable
    THEN [kind |-> "err", msg |-> "Failed to read directory: os error"]
    ELSE [kind |-> "ok",
          value |-> ScanLoop(f.path, f.entries,
                             [c \in Range(category_names) |-> <<>>], 0)]

\* directory entries offered to the scan: files, directories, an entry whose
\* metadata cannot be read, and an entry the iterator fails on
EntryInputs ==
    {[ok |-> TRUE, name |-> n, is_dir |-> FALSE, size |-> Len(n)] :
        n \in {"tax_2024.pdf", "notes.txt", "IMG_0001.jpg", "data.xyz",
               ".hidden.txt", "Quarterly_Report.DOCX"}}
    \cup {[ok |-> TRUE, name |-> "movie.mp4", is_dir |-> FALSE, size |-> -1],
          [ok |-> TRUE, name |-> "sub", is_dir |-> TRUE, size |-> 0],
          [ok |-> TRUE, name |-> "album.jpg", is_dir |-> TRUE, size |-> 0],
          [ok |-> FALSE, name |-> "", is_dir |-> FALSE, size |-> 0]}

\* entry names are unique within a directory
Fresh(l) ==
    {x \in EntryInputs : x.ok => \A i \in DOMAIN l : l[i].name # x.name}

RECURSIVE Listings(_)
Listings(n) ==
    IF n = 0 THEN {<<>>}
    ELSE LET L == Listings(n - 1)
         IN L \cup UNION {{Append(l, e) : e \in Fresh(l)} : l \in L}

FolderInputs ==
    {[kind |-> "missing", path |-> ScanDir], [kind |-> "file", path |-> ScanDir]}
    \cup {[kind |-> "dir", path |-> ScanDir, readable |-> r, entries |-> l] :
            r \in BOOLEAN, l \in Listings(MaxEntries)}

(***************************************************************************)
(* Paths (std::path::Path) over normalised absolute '/'-separated strings. *)
(***************************************************************************)
None == [some |-> FALSE]
Some(x) == [some |-> TRUE, v |-> x]

\* Path::parent
Parent(p) ==
    LET i == LastIndexOf(p, "/")
    IN IF p = "" \/ p = "/" THEN None
       ELSE IF i = 0 THEN Some("")
       ELSE IF i = 1 THEN Some("/")
       ELSE Some(SubSeq(p, 1, i - 1))

\* Path::file_name: the last component, none for the root and for ".."
FileName(p) ==
    LET name == SubSeq(p, LastIndexOf(p, "/") + 1, Len(p))
    IN IF p = "" \/ p = "/" \/ name = ".." THEN None ELSE Some(name)

(***************************************************************************)
(* The filesystem calls of std::fs, with POSIX outcomes.  Each returns     *)
(* [ok, fs, err]: whether it succeeded, the filesystem afterwards and the  *)
(* io::Error text.                                                         *)
(***************************************************************************)
Exists(f, p) == p \in DOMAIN f
IsDir(f, p) == p \in DOMAIN f /\ f[p] = 0
Children(f, p) == {q \in DOMAIN f : Parent(q) = Some(p)}
Under(f, p) == {q \in DOMAIN f : q = p \/ starts_with(q, p \o "/")}

FsOk(f) == [ok |-> TRUE, fs |-> f, err |-> ""]
FsErr(f, e) == [ok |-> FALSE, fs |-> f, err |-> e]

ENOENT == "No such file or directory (os error 2)"
EACCES == "Permission denied (os error 13)"
EBUSY == "Device or resource busy (os error 16)"
EEXIST == "File exists (os error 17)"
ENOTDIR == "Not a directory (os error 20)"
EISDIR == "Is a directory (os error 21)"
EINVAL == "Invalid argument (os error 22)"
ENOTEMPTY == "Directory not empty (os error 39)"

\* fs::rename: an existing destination file is replaced
Rename(f, ro, from, to) ==
    LET pf == Parent(from)
        pt == Parent(to)
    IN IF ~Exists(f, from) THEN FsErr(f, ENOENT)
       ELSE IF ~pt.some \/ ~pf.some THEN FsErr(f, EBUSY)
       ELSE IF ~Exists(f, pt.v) THEN FsErr(f, ENOENT)
       ELSE IF ~IsDir(f, pt.v) THEN FsErr(f, ENOTDIR)
       ELSE IF from = to THEN FsOk(f)
       ELSE IF pf.v \in ro \/ pt.v \in ro THEN FsErr(f, EACCES)
       ELSE IF f[from] # 0
       THEN IF IsDir(f, to) THEN FsErr(f, EISDIR)
            ELSE FsOk([p \in (DOMAIN f \ {from}) \cup {to} |->
                          IF p = to THEN f[from] ELSE f[p]])
       ELSE IF Exists(f, to) /\ ~IsDir(f, to) THEN FsErr(f, ENOTDIR)
       ELSE IF Exists(f, to) /\ Children(f, to) # {} THEN FsErr(f, ENOTEMPTY)
       ELSE IF starts_with(to, from \o "/") THEN FsErr(f, EINVAL)
       ELSE LET sub == Under(f, from)
                rebase(q) == to \o SubSeq(q, Len(from) + 1, Len(q))
            IN FsOk([p \in (DOMAIN f \ sub) \cup {rebase(q) : q \in sub} |->
                        IF \E q \in sub : rebase(q) = p
                        THEN f[CHOOSE q \in sub : rebase(q) = p]
                        ELSE f[p]])

\* fs::create_dir_all: creates the missing ancestors, then the directory
RECURSIVE create_dir_all(_, _, _)
create_dir_all(f, ro, p) ==
    IF Exists(f, p) THEN (IF IsDir(f, p) THEN FsOk(f) ELSE FsErr(f, EEXIST))
    ELSE LET par == Parent(p) IN
         IF ~par.some THEN FsErr(f, ENOENT)
         ELSE LET r == IF Exists(f, par.v) THEN FsOk(f)
                       ELSE create_dir_all(f, ro, par.v)
              IN IF ~r.ok THEN r
                 ELSE IF ~IsDir(r.fs, par.v) THEN FsErr(r.fs, ENOTDIR)
                 ELSE IF par.v \in ro THEN FsErr(r.fs, EACCES)
                 ELSE FsOk([q \in DOMAIN r.fs \cup {p} |->
                               IF q = p THEN 0 ELSE r.fs[q]])

\* fs::remove_dir: removes an empty directory
remove_dir(f, ro, p) ==
    LET par == Parent(p)
    IN IF ~Exists(f, p) THEN FsErr(f, ENOENT)
       ELSE IF ~IsDir(f, p) THEN FsErr(f, ENOTDIR)
       ELSE IF ~par.some THEN FsErr(f, EBUSY)
       ELSE IF Children(f, p) # {} THEN FsErr(f, ENOTEMPTY)
       ELSE IF par.v \in ro THEN FsErr(f, EACCES)
       ELSE FsOk([q \in DOMAIN f \ {p} |-> f[q]])

(***************************************************************************)
(* organize_files.  The plan is a JSON object: a sequence of               *)
(* [key, value] members in iteration order; a value is a string, an array  *)
(* of items or null; an item is an object with a "path" string, or null.   *)
(***************************************************************************)
JString(x) == [type |-> "string", str |-> x]
JArray(items) == [type |-> "array", items |-> items]
JNull == [type |-> "null"]
JFile(path) == [type |-> "object", path |-> path]

\* organization_plan.get("target_root").and_then(|v| v.as_str())
TargetRoot(p) ==
    IF \E i \in DOMAIN p : p[i].key = "target_root" /\ p[i].value.type = "string"
    THEN Some(p[CHOOSE i \in DOMAIN p : p[i].key = "target_root"].value.str)
    ELSE None

\* file.get("path").and_then(|v| v.as_str())
ItemPath(item) == IF item.type = "object" THEN Some(item.path) ELSE None

Quoted(x) == "\"" \o x \o "\""

MkdirError(dir, e) == "Failed to create directory " \o Quoted(dir) \o ": " \o e

MoveError_no_path(src, e) == "Failed to move a file: " \o e

\* the error string of a failed rename, line 301
MoveError(src, e) == "Failed to move " \o src \o ": " \o e

RecordMove_always(log_, src, dest, ok) ==
    Append(log_, [from |-> src, to |-> dest])

\* the move log after a rename, lines 300-306
RecordMove(log_, src, dest, ok) ==
    IF ok THEN Append(log_, [from |-> src, to |-> dest]) ELSE log_

RECURSIVE JoinLines(_)
JoinLines(lines) ==
    IF lines = <<>> THEN ""
    ELSE IF Len(lines) = 1 THEN lines[1]
    ELSE lines[1] \o "\n" \o JoinLines(Tail(lines))

\* the completion policy, lines 312-323 (the leading emoji of the success
\* message is left out)
OrganizeResult(n, errs, log_) ==
    IF errs = <<>>
    THEN [kind |-> "ok",
          message |-> "Organized " \o ToString(n) \o " files successfully!",
          moves |-> log_]
    ELSE [kind |-> "err",
          message |-> "Moved " \o ToString(n)
                      \o " files, but some errors occurred:\n" \o JoinLines(errs)]

\* the lookup of target_root, lines 261-270; a plan that has a target_root
\* string is an object, so the as_object test cannot fail after it
OrgStart ==
    /\ pc = "start"
    /\ IF TargetRoot(plan).some
       THEN pc' = "category" /\ result' = result
       ELSE /\ pc' = "returned"
            /\ result' = [kind |-> "err",
                          message |-> "Missing 'target_root' in organization plan"]
    /\ UNCHANGED <<fs, readonly, plan, ci, fi, category_dir, moved_files,
                   errors, moves, undoVars, histVars, classVars, scanVars>>

\* one iteration of the loop over the members of the plan, up to the first
\* file entry, lines 272-287
OrgCategory ==
    /\ pc = "category"
    /\ ci <= Len(plan)
    /\ LET member == plan[ci]
           dir == PathJoin(TargetRoot(plan).v, member.key)
           made == IF Exists(fs, dir) THEN FsOk(fs)
                   ELSE create_dir_all(fs, readonly, dir)
       IN IF member.key = "target_root" \/ member.value.type # "array"
          THEN /\ ci' = ci + 1
               /\ UNCHANGED <<fs, pc, fi, category_dir, errors, mkdir_failed>>
          ELSE IF ~made.ok
          THEN /\ errors' = Append(errors, MkdirError(dir, made.err))
               /\ fs' = made.fs
               /\ mkdir_failed' = mkdir_failed \cup {ci}
               /\ ci' = ci + 1
               /\ UNCHANGED <<pc, fi, category_dir>>
          ELSE /\ fs' = made.fs
               /\ category_dir' = dir
               /\ IF member.value.items = <<>>
                  THEN ci' = ci + 1 /\ UNCHANGED <<pc, fi>>
                  ELSE pc' = "file" /\ fi' = 1 /\ ci' = ci
               /\ UNCHANGED <<errors, mkdir_failed>>
    /\ UNCHANGED <<readonly, plan, moved_files, moves, result, undoVars,
                   fs0, attempts, external, uattempts, fs_reversed, cleanup,
                   classVars, scanVars>>

\* one iteration of the loop over the file entries of a category, lines 289-309
OrgFile ==
    /\ pc = "file"
    /\ LET items == plan[ci].value.items
           src == ItemPath(items[fi])
           file_name == IF src.some THEN FileName(src.v) ELSE None
       IN /\ IF ~src.some \/ ~file_name.some
             THEN UNCHANGED <<fs, errors, moves, moved_files, attempts>>
             ELSE LET dest == PathJoin(category_dir, file_name.v)
                      r == Rename(fs, readonly, src.v, dest)
                  IN /\ fs' = r.fs
                     /\ errors' = IF r.ok THEN errors
                                  ELSE Append(errors, MoveError(src.v, r.err))
                     /\ moves' = RecordMove(moves, src.v, dest, r.ok)
                     /\ moved_files' = IF r.ok THEN moved_files + 1
                                       ELSE moved_files
                     /\ attempts' = Append(attempts,
                            [from |-> src.v, to |-> dest, ok |-> r.ok,
                             ci |-> ci, fi |-> fi,
                             id |-> IF Exists(fs, src.v) THEN fs[src.v] ELSE -1])
          /\ IF fi < Len(items)
             THEN fi' = fi + 1 /\ UNCHANGED <<pc, ci>>
             ELSE pc' = "category" /\ ci' = ci + 1 /\ fi' = fi
    /\ UNCHANGED <<readonly, plan, category_dir, result, undoVars, fs0,
                   mkdir_failed, external, uattempts, fs_reversed, cleanup,
                   classVars, scanVars>>

OrgFinish ==
    /\ pc = "category"
    /\ ci > Len(plan)
    /\ result' = OrganizeResult(moved_files, errors, moves)
    /\ pc' = "returned"
    /\ UNCHANGED <<fs, readonly, plan, ci, fi, category_dir, moved_files,
                   errors, moves, undoVars, histVars, classVars, scanVars>>

(***************************************************************************)
(* undo_organize, called with the move log a successful organize_files     *)
(* returned.  Between the two calls the filesystem may be changed from     *)
(* outside, once.                                                          *)
(***************************************************************************)
\* the parent directories of the 'to' paths, lines 334-339
FoldersToCheck(log_) ==
    {Parent(log_[i].to).v : i \in {j \in DOMAIN log_ : Parent(log_[j].to).some}}

UndoError(to, e) == "Failed to move back " \o to \o ": " \o e

CountUndone_always(n, ok) == n + 1

\* the restored counter after a reversal, lines 342-346
CountUndone(n, ok) == IF ok THEN n + 1 ELSE n

ShouldRemove_exists(f, dir) == Exists(f, dir)

\* folder.exists() && folder.read_dir() yields no entry, line 351
ShouldRemove(f, dir) == Exists(f, dir) /\ IsDir(f, dir) /\ Children(f, dir) = {}

\* the completion policy, lines 358-366 (the leading emoji of the success
\* message is left out)
UndoResult(n, errs) ==
    IF errs = <<>>
    THEN [kind |-> "ok",
          message |-> "Undo successful! Restored " \o ToString(n) \o " files."]
    ELSE [kind |-> "err",
          message |-> "Restored " \o ToString(n)
                      \o " files, but some errors occurred:\n" \o JoinLines(errs)]

Stray == "stray.txt"

\* a change made by another process: a moved file is deleted, the directory
\* a file came from becomes read-only, or a file appears in a category
\* directory
ExternalChange ==
    /\ pc = "returned"
    /\ result.kind = "ok"
    /\ result.moves # <<>>
    /\ ~external
    /\ external' = TRUE
    /\ LET m == result.moves[1] IN
       \/ /\ Exists(fs, m.to) /\ fs[m.to] # 0
          /\ fs' = [q \in DOMAIN fs \ {m.to} |-> fs[q]]
          /\ UNCHANGED readonly
       \/ /\ readonly' = readonly \cup {Parent(m.from).v}
          /\ UNCHANGED fs
       \/ /\ ~Exists(fs, PathJoin(Parent(m.to).v, Stray))
          /\ fs' = fs @@ (PathJoin(Parent(m.to).v, Stray) :> 9)
          /\ UNCHANGED readonly
    /\ UNCHANGED <<orgVars, undoVars, fs0, attempts, mkdir_failed, uattempts,
                   fs_reversed, cleanup, classVars, scanVars>>

\* entry of undo_organize and the collection loop, lines 330-339
UndoStart ==
    /\ pc = "returned"
    /\ result.kind = "ok"
    /\ log' = result.moves
    /\ folders_to_check' = FoldersToCheck(result.moves)
    /\ ui' = 1
    /\ pc' = "undo"
    /\ fs_reversed' = fs
    /\ UNCHANGED <<fs, readonly, plan, ci, fi, category_dir, moved_files, errors,
                   moves, result, undone, uerrors, uresult, fs0, attempts,
                   mkdir_failed, external, uattempts, cleanup, classVars, scanVars>>

\* one iteration of the reversal loop, lines 341-347
UndoMove ==
    /\ pc = "undo"
    /\ ui <= Len(log)
    /\ LET m == log[ui]
           r == Rename(fs, readonly, m.to, m.from)
       IN /\ fs' = r.fs
          /\ fs_reversed' = r.fs
          /\ uerrors' = IF r.ok THEN uerrors
                        ELSE Append(uerrors, UndoError(m.to, r.err))
          /\ undone' = CountUndone(undone, r.ok)
          /\ uattempts' = Append(uattempts,
                                 [from |-> m.to, to |-> m.from, ok |-> r.ok])
    /\ ui' = ui + 1
    /\ UNCHANGED <<readonly, orgVars, log, folders_to_check, uresult, fs0,
                   attempts, mkdir_failed, external, cleanup, classVars, scanVars>>

\* one iteration of the cleanup loop, lines 350-356; a HashSet is visited in
\* an arbitrary order
UndoCleanup ==
    /\ pc = "undo"
    /\ ui > Len(log)
    /\ \E d \in folders_to_check :
          LET call == ShouldRemove(fs, d)
              r == remove_dir(fs, readonly, d)
          IN /\ fs' = IF call THEN r.fs ELSE fs
             /\ cleanup' = cleanup \cup
                   {[dir |-> d, called |-> call, seen |-> fs,
                     removed |-> call /\ r.ok]}
             /\ folders_to_check' = folders_to_check \ {d}
    /\ UNCHANGED <<readonly, orgVars, log, ui, undone, uerrors, uresult, fs0,
                   attempts, mkdir_failed, external, uattempts, fs_reversed,
                   classVars, scanVars>>

UndoFinish ==
    /\ pc = "undo"
    /\ ui > Len(log)
    /\ folders_to_check = {}
    /\ uresult' = UndoResult(undone, uerrors)
    /\ pc' = "done"
    /\ UNCHANGED <<fs, readonly, plan, ci, fi, category_dir, moved_files, errors, moves, result, log, ui, folders_to_check,
                   undone, uerrors, histVars, classVars, scanVars>>

(***************************************************************************)
(* Inputs of organize_files: a filesystem with two source files of the     *)
(* same base name, a target root that is missing, present or read-only,    *)
(* and a category directory that is missing, empty or already populated.   *)
(***************************************************************************)
SrcA == "/in/a.txt"
SrcB == "/in2/a.txt"
Root == "/out"
Categories == {"Documents", "Images"}
DocsDir == PathJoin(Root, "Documents")
InDocs == PathJoin(DocsDir, "a.txt")
OldDoc == PathJoin(DocsDir, "old.txt")

BaseFs ==
    ("/" :> 0) @@ ("/in" :> 0) @@ (SrcA :> 1) @@ ("/in2" :> 0) @@ (SrcB :> 2)

FsInputs ==
    {BaseFs,
     BaseFs @@ (Root :> 0),
     BaseFs @@ (Root :> 0) @@ (DocsDir :> 0),
     BaseFs @@ (Root :> 0) @@ (DocsDir :> 0) @@ (OldDoc :> 3),
     BaseFs @@ (Root :> 0) @@ (DocsDir :> 0) @@ (InDocs :> 3)}

ItemInputs == {JFile(SrcA), JFile(SrcB), JFile(InDocs), JFile("/"), JNull}

RECURSIVE ItemLists(_)
ItemLists(n) ==
    IF n = 0 THEN {<<>>}
    ELSE LET L == ItemLists(n - 1)
         IN L \cup {Append(l, x) : l \in L, x \in ItemInputs}

ValueSize(v) == IF v.type = "array" THEN Len(v.items) ELSE 0
ValueInputs == {JNull} \cup {JArray(l) : l \in ItemLists(MaxFiles)}

\* the category members of a plan: distinct keys, at most MaxFiles entries
MemberLists ==
    {<<>>}
    \cup {<<[key |-> k, value |-> v]>> : k \in Categories, v \in ValueInputs}
    \cup {<<[key |-> ks[1], value |-> vs[1]], [key |-> ks[2], value |-> vs[2]]>> :
            ks \in {k \in Categories \X Categories : k[1] # k[2]},
            vs \in {v \in ValueInputs \X ValueInputs :
                       ValueSize(v[1]) + ValueSize(v[2]) <= MaxFiles}}

PlanInputs ==
    {<<>>}
    \cup {Append(m, [key |-> "target_root", value |-> JString(Root)]) :
            m \in MemberLists}

ClassifyIdle == file_info = MakeFileInfo(ScanDir, "", 0) /\ category = ""
ScanIdle ==
    folder = [kind |-> "missing", path |-> ScanDir] /\ analysis = [kind |-> "none"]
MoveIdle ==
    /\ fs = BaseFs /\ readonly = {} /\ plan = <<>> /\ pc = "idle"
    /\ ci = 1 /\ fi = 1 /\ category_dir = "" /\ moved_files = 0
    /\ errors = <<>> /\ moves = <<>> /\ result = [kind |-> "none"]
    /\ log = <<>> /\ ui = 1 /\ folders_to_check = {} /\ undone = 0
    /\ uerrors = <<>> /\ uresult = [kind |-> "none"]
    /\ fs0 = BaseFs /\ attempts = <<>> /\ mkdir_failed = {} /\ external = FALSE
    /\ uattempts = <<>> /\ fs_reversed = BaseFs /\ cleanup = {}

vars == <<classVars, scanVars, moveVars>>

InitClassify ==
    /\ file_info \in {MakeFileInfo(ScanDir, n, 0) : n \in NameInputs}
    /\ category = ""
    /\ ScanIdle
    /\ MoveIdle

Categorize ==
    /\ category = ""
    /\ category' = categorize_file(file_info)
    /\ UNCHANGED <<file_info, scanVars, moveVars>>

NextClassify == Categorize
SpecClassify == InitClassify /\ [][NextClassify]_vars

InitScan ==
    /\ ClassifyIdle
    /\ folder \in FolderInputs
    /\ analysis = [kind |-> "none"]
    /\ MoveIdle

AnalyzeFolder ==
    /\ analysis.kind = "none"
    /\ analysis' = analyze_folder(folder)
    /\ UNCHANGED <<folder, classVars, moveVars>>

NextScan == AnalyzeFolder
SpecScan == InitScan /\ [][NextScan]_vars

Init ==
    /\ ClassifyIdle
    /\ ScanIdle
    /\ fs \in FsInputs
    /\ readonly \in {{}, {Root}}
    /\ (readonly # {} => Exists(fs, Root))
    /\ plan \in PlanInputs
    /\ pc = "start"
    /\ ci = 1 /\ fi = 1 /\ category_dir = "" /\ moved_files = 0
    /\ errors = <<>> /\ moves = <<>> /\ result = [kind |-> "none"]
    /\ log = <<>> /\ ui = 1 /\ folders_to_check = {} /\ undone = 0
    /\ uerrors = <<>> /\ uresult = [kind |-> "none"]
    /\ fs0 = fs /\ attempts = <<>> /\ mkdir_failed = {} /\ external = FALSE
    /\ uattempts = <<>> /\ fs_reversed = fs /\ cleanup = {}

Next ==
    \/ OrgStart
    \/ OrgCategory
    \/ OrgFile
    \/ OrgFinish
    \/ ExternalChange
    \/ UndoStart
    \/ UndoMove
    \/ UndoCleanup
    \/ UndoFinish

Spec == Init /\ [][Next]_vars

(***************************************************************************)
(* Properties of the category rules (SpecClassify).                        *)
(***************************************************************************)
\* the characters of s with letter case folded
FoldCase(s) == [i \in 1..Len(s) |-> LowerChar(SubSeq(s, i, i))]

\* the character sequence a has the character sequence b as a contiguous part
HasPart(a, b) ==
    \E i \in 1..(Len(a) - Len(b) + 1) : \A j \in 1..Len(b) : a[i + j - 1] = b[j]

\* name contains one of the keywords as a substring when letter case is ignored
HasKeyword(name, keywords) ==
    LET a == FoldCase(name) IN \E k \in keywords : HasPart(a, FoldCase(k))

HasSensitiveKeyword(name) == HasKeyword(name, sensitive_keywords)
HasWorkKeyword(name) == HasKeyword(name, work_keywords)
HasPersonalKeyword(name) == HasKeyword(name, personal_keywords)
HasYearLiteral(name) == HasKeyword(name, {"2023", "2024", "2025"})

\* C3: a file name that contains a sensitive keyword, in any letter case, is
\* labelled Sensitive whatever its extension is.
C3_SensitiveOverridesExtension ==
    (category # "" /\ HasSensitiveKeyword(file_info.name))
        => category = "Sensitive"

\* a name that matches only when case is ignored, with a Documents or Images
\* extension, has been labelled Sensitive
C3_Witness ==
    /\ category = "Sensitive"
    /\ file_info.extension \in DocumentExts \cup ImageExts
    /\ ~is_sensitive_file(file_info.name)

\* C4 as stated: within the Images extensions the label is Personal Photos
\* exactly for a personal keyword or a 2023/2024/2025 literal, and
\* "IMG_0001.jpg" is Images.
C4_Original ==
    (category # "" /\ file_info.extension \in ImageExts) =>
        /\ category = IF HasPersonalKeyword(file_info.name)
                         \/ HasYearLiteral(file_info.name)
                      THEN "Personal Photos" ELSE "Images"
        /\ file_info.name = "family_vacation.jpg" => category = "Personal Photos"
        /\ file_info.name = "IMG_0001.jpg" => category = "Images"

\* C4 amended: within the Images extensions, a name without a sensitive
\* keyword is Personal Photos exactly for a personal keyword or a
\* 2023/2024/2025 literal and Images otherwise; "IMG_0001.jpg" is Personal
\* Photos because it contains the personal keyword "img".
C4_PersonalPhotos ==
    (/\ category # ""
     /\ file_info.extension \in ImageExts
     /\ ~HasSensitiveKeyword(file_info.name)) =>
        /\ category = IF HasPersonalKeyword(file_info.name)
                         \/ HasYearLiteral(file_info.name)
                      THEN "Personal Photos" ELSE "Images"
        /\ file_info.name = "family_vacation.jpg" => category = "Personal Photos"
        /\ file_info.name = "IMG_0001.jpg" => category = "Personal Photos"

C4_Witness == file_info.name = "IMG_0001.jpg" /\ category = "Personal Photos"

\* C5 as stated: for every extension mapped to Documents, a work keyword
\* gives Work Documents and its absence gives Documents.
C5_Original ==
    (category # "" /\ file_info.extension \in DocumentExts \cup SheetExts) =>
        category = IF HasWorkKeyword(file_info.name)
                   THEN "Work Documents" ELSE "Documents"

\* C5 amended: for a name without a sensitive keyword, the extensions pdf,
\* doc, docx, txt, rtf, odt give Work Documents with a work keyword and
\* Documents without one; the spreadsheet and presentation extensions give
\* Documents either way.
C5_WorkDocuments ==
    (category # "" /\ ~HasSensitiveKeyword(file_info.name)) =>
        /\ file_info.extension \in DocumentExts =>
              category = IF HasWorkKeyword(file_info.name)
                         THEN "Work Documents" ELSE "Documents"
        /\ file_info.extension \in SheetExts => category = "Documents"

\* a spreadsheet whose name has a work keyword has been labelled Documents
C5_Witness ==
    /\ category = "Documents"
    /\ file_info.extension \in SheetExts
    /\ HasWorkKeyword(file_info.name)

(***************************************************************************)
(* Properties of organize_files and undo_organize (Spec).                  *)
(***************************************************************************)
IsOk(a) == a.ok
Failed(a) == ~a.ok
AsMove(a) == [from |-> a.from, to |-> a.to]
Parents(log_) == {Parent(log_[i].to).v : i \in DOMAIN log_}
EmptyDirIn(f, d) ==
    d \in DOMAIN f /\ f[d] = 0 /\ \A q \in DOMAIN f : ~starts_with(q, d \o "/")
PathOf(f, id) == CHOOSE p \in DOMAIN f : f[p] = id

\* C1: after an organize_files call with zero errors, the log has one entry
\* per successful rename, and undo_organize on that log, with no outside
\* change in between, succeeds, puts every moved file back at the path it had
\* before the call, and removes a category directory exactly when it is
\* empty.
C1_RoundTrip ==
    (pc = "done" /\ ~external) =>
        /\ Len(log) = Len(SelectSeq(attempts, IsOk))
        /\ uresult.kind = "ok"
        /\ \A i \in DOMAIN attempts :
              attempts[i].ok =>
                 LET home == PathOf(fs0, attempts[i].id)
                 IN Exists(fs, home) /\ fs[home] = attempts[i].id
        /\ \A c \in cleanup : c.called <=> EmptyDirIn(c.seen, c.dir)

\* C2: the move log is the sequence of the renames that succeeded so far, in
\* order, and its length is the moved_files counter.
C2_MoveLogInvariant ==
    LET done == SelectSeq(attempts, IsOk)
    IN /\ Len(moves) = moved_files
       /\ Len(moves) = Len(done)
       /\ \A i \in DOMAIN moves : moves[i] = AsMove(done[i])
       /\ \A i \in DOMAIN attempts :
             ~attempts[i].ok =>
                 \/ \A j \in DOMAIN moves : moves[j] # AsMove(attempts[i])
                 \/ \E j \in DOMAIN attempts :
                       attempts[j].ok /\ AsMove(attempts[j]) = AsMove(attempts[i])

\* inside the call, after one rename failed and one succeeded
C2_Witness ==
    /\ pc \in {"file", "category"}
    /\ \E i \in DOMAIN attempts : ~attempts[i].ok
    /\ moves # <<>>

\* the file entries organize_files has to try: those with a path and a file
\* name, in the array-valued members whose directory exists or was created
Due ==
    {<<c, f>> \in (DOMAIN plan) \X (1..MaxFiles + 1) :
        /\ plan[c].key # "target_root"
        /\ plan[c].value.type = "array"
        /\ c \notin mkdir_failed
        /\ f \in DOMAIN plan[c].value.items
        /\ ItemPath(plan[c].value.items[f]).some
        /\ FileName(ItemPath(plan[c].value.items[f]).v).some}

\* C6: a failed rename does not end the batch: when the call returns, every
\* due file entry was tried once, in plan order; the call succeeds exactly
\* when no rename and no directory creation failed; the aggregate error
\* starts with the number of successful renames and contains the source path
\* of every failed one.
C6_PartialFailure ==
    (pc = "returned" /\ TargetRoot(plan).some) =>
        /\ \A d \in Due :
              Cardinality({i \in DOMAIN attempts :
                  <<attempts[i].ci, attempts[i].fi>> = d}) = 1
        /\ \A i \in DOMAIN attempts :
              /\ <<attempts[i].ci, attempts[i].fi>> \in Due
              /\ attempts[i].from =
                    plan[attempts[i].ci].value.items[attempts[i].fi].path
              /\ \A j \in DOMAIN attempts :
                    i < j => \/ attempts[i].ci < attempts[j].ci
                             \/ /\ attempts[i].ci = attempts[j].ci
                                /\ attempts[i].fi < attempts[j].fi
        /\ result.kind = "ok" <=>
              ((\A i \in DOMAIN attempts : attempts[i].ok) /\ mkdir_failed = {})
        /\ result.kind = "err" =>
              /\ starts_with(result.message,
                    "Moved " \o ToString(Len(SelectSeq(attempts, IsOk)))
                    \o " files,")
              /\ \A i \in DOMAIN attempts :
                    ~attempts[i].ok => contains(result.message, attempts[i].from)

\* an aggregate error after a failed rename that was followed by a
\* successful one
C6_Witness ==
    /\ pc = "returned"
    /\ result.kind = "err"
    /\ \E i, j \in DOMAIN attempts : i < j /\ ~attempts[i].ok /\ attempts[j].ok

\* C8: undo_organize tries the rename from `to` back to `from` once per
\* record, in log order, whatever the earlier outcomes; restored count plus
\* error count is the log length; it succeeds exactly when every reversal
\* did, and otherwise returns one aggregate error with the restored count
\* and one message per failed record.
C8_UndoAggregate ==
    (pc = "done") =>
        /\ Len(uattempts) = Len(log)
        /\ \A i \in DOMAIN log :
              uattempts[i].from = log[i].to /\ uattempts[i].to = log[i].from
        /\ undone = Len(SelectSeq(uattempts, IsOk))
        /\ undone + Len(uerrors) = Len(log)
        /\ uresult.kind = "ok" <=> (\A i \in DOMAIN uattempts : uattempts[i].ok)
        /\ uresult.kind = "err" =>
              /\ starts_with(uresult.message,
                             "Restored " \o ToString(undone) \o " files,")
              /\ Len(uerrors) = Len(SelectSeq(uattempts, Failed))
              /\ \A i \in DOMAIN uattempts :
                    ~uattempts[i].ok => contains(uresult.message, uattempts[i].from)

\* an undo in which a reversal failed and a later one succeeded
C8_Witness ==
    /\ pc = "done"
    /\ \E i, j \in DOMAIN uattempts :
          i < j /\ ~uattempts[i].ok /\ uattempts[j].ok

\* C9: the directories the cleanup visits are the parents of the `to` paths,
\* fixed before the first reversal and visited only after the last one;
\* remove_dir is called on a candidate exactly when it exists and is empty
\* at that moment, and removes it unless the OS refuses; nothing else in the
\* filesystem changes during cleanup; a refused removal adds no error.
C9_DirectoryCleanup ==
    /\ pc \in {"undo", "done"} =>
          /\ folders_to_check \cup {c.dir : c \in cleanup} = Parents(log)
          /\ \A c \in cleanup : c.dir \notin folders_to_check
          /\ cleanup # {} => Len(uattempts) = Len(log)
    /\ \A c \in cleanup :
          /\ c.called <=> EmptyDirIn(c.seen, c.dir)
          /\ c.removed => c.called
          /\ (c.called /\ Parent(c.dir).v \notin readonly) => c.removed
    /\ pc = "done" =>
          /\ \A p \in DOMAIN fs_reversed :
                IF \E c \in cleanup : c.dir = p /\ c.removed
                THEN p \notin DOMAIN fs
                ELSE p \in DOMAIN fs /\ fs[p] = fs_reversed[p]
          /\ DOMAIN fs \subseteq DOMAIN fs_reversed
          /\ Len(uerrors) = Len(SelectSeq(uattempts, Failed))

\* an undo that removed one emptied directory and left another one that
\* still holds an entry
C9_Witness ==
    /\ pc = "done"
    /\ \E c1, c2 \in cleanup :
          /\ c1.removed
          /\ ~c2.called /\ Exists(fs, c2.dir)

\* C10: organize_files destroys no file: every file present before the call
\* is present afterwards, at its old path or at the `to` path of a move
\* record, and the number of files is unchanged.
C10_NoDataLoss ==
    (pc = "returned") =>
        /\ \A p \in DOMAIN fs0 :
              fs0[p] # 0 =>
                 \E q \in DOMAIN fs :
                    /\ fs[q] = fs0[p]
                    /\ q = p \/ \E i \in DOMAIN moves : moves[i].to = q
        /\ Cardinality({p \in DOMAIN fs : fs[p] # 0}) =
           Cardinality({p \in DOMAIN fs0 : fs0[p] # 0})

(***************************************************************************)
(* Properties of the folder scanner (SpecScan).                            *)
(***************************************************************************)
Count(seq, name) == Cardinality({i \in DOMAIN seq : seq[i].name = name})

RECURSIVE SumLen(_, _)
SumLen(cats, keys) ==
    IF keys = {} THEN 0
    ELSE LET k == CHOOSE x \in keys : TRUE
         IN Len(cats[k]) + SumLen(cats, keys \ {k})

Listed(e) == e.ok /\ ~e.is_dir /\ ~starts_with(e.name, ".")

====
